---- MODULE Spec2Model ----
(***************************************************************************)
(* Model of the Maze engine of darkmaze (src/js/maze.js): the grid of      *)
(* cells with four wall flags, the depth-first carving of generate(), and  *)
(* the query surface canMove / isGoal / getCell / getAdjacentWallCount.    *)
(*                                                                         *)
(* Coordinates are 0-based as in the source; TLA+ sequences are 1-based,   *)
(* so the source's grid[y][x] is grid[y + 1][x + 1] here.                  *)
(***************************************************************************)
EXTENDS Integers, Sequences, FiniteSets

\* Largest grid dimensions constructed (new Maze(width, height)) where the
\* queries are called on the maze.
MaxWidth == 3
MaxHeight == 2

\* Largest grid dimensions constructed where generation alone is followed.
MaxGenWidth == 3
MaxGenHeight == 3

\* The Game's maze is new Maze(GameSize, GameSize); the source constructs
\* new Maze(10, 10).
GameSize == 2

\* The moves a session is followed for: no key is pressed once
\* Player.moveCount has reached MaxMoves.
MaxMoves == 3

\* How far below 1 the malformed dimensions handed to the constructor go:
\* dimensions are taken from -MaxBadDim up.
MaxBadDim == 1

\* Game.maxEnergy (1.0) and Game.energyLossPerCollision (0.06), in
\* hundredths; the win progress added per frame (0.015) and the progress that
\* ends the win sequence (1), in thousandths.
MaxEnergy == 100
EnergyLossPerCollision == 6
WinProgressPerFrame == 15
WinProgressDone == 1000

VARIABLES
    width,      \* this.width
    height,     \* this.height
    grid,       \* this.grid: rows of cells, a cell is [x, y, walls, visited]
    start,      \* this.start
    goal,       \* this.goal
    stack,      \* the local stack of generate(): cells, held by coordinates
    pc,         \* "new" | "generating" | "stable" | "failed": position in
                \* the lifecycle; "failed" is a constructor that threw
    origin,     \* which entry point made the last call of generate()
    ret,        \* the last query call made, the value it returned, and
                \* whether it repeated the call before it
    gpc,        \* position of the Game controller: "none" (no Game, the
                \* maze stands alone) | "constructing" | "idle"
    event,      \* the callback of the Game served last:
                \* "none" | "keydown" | "frame" | "restart"
    state,      \* Game.state: "playing" | "winning" | "won" | "gameover"
    winProgress,    \* Game.winProgress, in thousandths
    energy,         \* Game.energy, in hundredths
    hasMovedOnce,   \* Game.hasMovedOnce
    gridX,          \* Player.gridX
    gridY,          \* Player.gridY
    isMoving,       \* Player.isMoving
    isBouncing,     \* Player.isBouncing
    moveTo,         \* Player.moveTo, as handleMove assigns it
    moveCount,      \* Player.moveCount
    collisionCount, \* Player.collisionCount
    blockedAttempts \* history: the blocked move attempts (collisions) since
                    \* the last start or restart

mazeVars == <<width, height, grid, start, goal>>

playerVars == <<gridX, gridY, isMoving, isBouncing, moveTo, moveCount,
                collisionCount>>

gameVars == <<gpc, event, state, winProgress, energy, hasMovedOnce,
              playerVars, blockedAttempts>>

vars == <<width, height, grid, start, goal, stack, pc, origin, ret, gameVars>>

----------------------------------------------------------------------------
\* Values

\* canMove returns the boolean false for an open side and a string otherwise;
\* the four outcomes are kept apart as four strings.
OPEN == "false"
BLOCKED_BY_WALL == "wall"
OUT_OF_BOUNDS == "boundary"
INVALID_DIRECTION == "invalid"

\* The direction tokens canMove recognises.
Directions == {"n", "e", "s", "w"}

\* Tokens handed to canMove: the recognised ones and one that is not.
Tokens == Directions \cup {"north"}

\* getCell's absent result.
null == [null |-> TRUE]

\* No query has been made since the maze became stable.
NoCall == [op |-> "none"]

\* The fields of Game and Player as the constructors set them: state
\* 'playing', energy 1.0, the player on (0, 0), nothing moving, no counts.
FreshSession ==
    /\ state = "playing"
    /\ winProgress = 0
    /\ energy = MaxEnergy
    /\ hasMovedOnce = FALSE
    /\ gridX = 0
    /\ gridY = 0
    /\ isMoving = FALSE
    /\ isBouncing = FALSE
    /\ moveTo = [x |-> 0, y |-> 0]
    /\ moveCount = 0
    /\ collisionCount = 0
    /\ blockedAttempts = 0

\* The maze stands alone: there is no Game around it.
NoGame ==
    /\ gpc = "none"
    /\ event = "none"
    /\ FreshSession

----------------------------------------------------------------------------
\* Generation

\* initGrid whose cells start without their west wall.
InitGridWestOpen(w, h) ==
    [r \in 1..h |->
        [c \in 1..w |->
            [x |-> c - 1,
             y |-> r - 1,
             walls |-> [n |-> TRUE, e |-> TRUE, s |-> TRUE, w |-> FALSE],
             visited |-> FALSE]]]

\* initGrid(): height rows of width cells, every wall set, nothing visited.
InitGrid(w, h) ==
    [r \in 1..h |->
        [c \in 1..w |->
            [x |-> c - 1,
             y |-> r - 1,
             walls |-> [n |-> TRUE, e |-> TRUE, s |-> TRUE, w |-> TRUE],
             visited |-> FALSE]]]

\* grid[y][x] of a grid g.
At(g, x, y) == g[y + 1][x + 1]

\* getUnvisitedNeighbors without its south case.
GetUnvisitedNeighborsNoSouth(g, cell) ==
    LET x == cell.x
        y == cell.y
    IN  (IF y > 0 /\ ~At(g, x, y - 1).visited
            THEN <<[x |-> x, y |-> y - 1]>> ELSE <<>>)
        \o
        (IF x < width - 1 /\ ~At(g, x + 1, y).visited
            THEN <<[x |-> x + 1, y |-> y]>> ELSE <<>>)
        \o
        (IF x > 0 /\ ~At(g, x - 1, y).visited
            THEN <<[x |-> x - 1, y |-> y]>> ELSE <<>>)

\* The body of getUnvisitedNeighbors(cell) on a maze of width w and height
\* h: the unvisited in-bounds neighbours of the cell, in the order north,
\* east, south, west.
UnvisitedNeighborsIn(w, h, g, cell) ==
    LET x == cell.x
        y == cell.y
    IN  (IF y > 0 /\ ~At(g, x, y - 1).visited
            THEN <<[x |-> x, y |-> y - 1]>> ELSE <<>>)
        \o
        (IF x < w - 1 /\ ~At(g, x + 1, y).visited
            THEN <<[x |-> x + 1, y |-> y]>> ELSE <<>>)
        \o
        (IF y < h - 1 /\ ~At(g, x, y + 1).visited
            THEN <<[x |-> x, y |-> y + 1]>> ELSE <<>>)
        \o
        (IF x > 0 /\ ~At(g, x - 1, y).visited
            THEN <<[x |-> x - 1, y |-> y]>> ELSE <<>>)

\* getUnvisitedNeighbors(cell), on this.width and this.height.
GetUnvisitedNeighbors(g, cell) == UnvisitedNeighborsIn(width, height, g, cell)

\* removeWall without its dx === -1 branch: a step to the west carves nothing.
RemoveWallNoWest(g, a, b) ==
    LET dx == b.x - a.x
        dy == b.y - a.y
    IN  IF dx = 1 THEN
            [g EXCEPT ![a.y + 1][a.x + 1].walls.e = FALSE,
                      ![b.y + 1][b.x + 1].walls.w = FALSE]
        ELSE IF dy = 1 THEN
            [g EXCEPT ![a.y + 1][a.x + 1].walls.s = FALSE,
                      ![b.y + 1][b.x + 1].walls.n = FALSE]
        ELSE IF dy = -1 THEN
            [g EXCEPT ![a.y + 1][a.x + 1].walls.n = FALSE,
                      ![b.y + 1][b.x + 1].walls.s = FALSE]
        ELSE g

\* removeWall without its dy === 1 branch: a step to the south carves nothing.
RemoveWallNoSouth(g, a, b) ==
    LET dx == b.x - a.x
        dy == b.y - a.y
    IN  IF dx = 1 THEN
            [g EXCEPT ![a.y + 1][a.x + 1].walls.e = FALSE,
                      ![b.y + 1][b.x + 1].walls.w = FALSE]
        ELSE IF dx = -1 THEN
            [g EXCEPT ![a.y + 1][a.x + 1].walls.w = FALSE,
                      ![b.y + 1][b.x + 1].walls.e = FALSE]
        ELSE IF dy = -1 THEN
            [g EXCEPT ![a.y + 1][a.x + 1].walls.n = FALSE,
                      ![b.y + 1][b.x + 1].walls.s = FALSE]
        ELSE g

\* removeWall clearing only the side of the cell being left.
RemoveWallOneSided(g, a, b) ==
    LET dx == b.x - a.x
        dy == b.y - a.y
    IN  IF dx = 1 THEN [g EXCEPT ![a.y + 1][a.x + 1].walls.e = FALSE]
        ELSE IF dx = -1 THEN [g EXCEPT ![a.y + 1][a.x + 1].walls.w = FALSE]
        ELSE IF dy = 1 THEN [g EXCEPT ![a.y + 1][a.x + 1].walls.s = FALSE]
        ELSE IF dy = -1 THEN [g EXCEPT ![a.y + 1][a.x + 1].walls.n = FALSE]
        ELSE g

\* removeWall with the two sides of each branch exchanged: it clears the
\* walls facing away from the shared one.
RemoveWallFlipped(g, a, b) ==
    LET dx == b.x - a.x
        dy == b.y - a.y
    IN  IF dx = 1 THEN
            [g EXCEPT ![a.y + 1][a.x + 1].walls.w = FALSE,
                      ![b.y + 1][b.x + 1].walls.e = FALSE]
        ELSE IF dx = -1 THEN
            [g EXCEPT ![a.y + 1][a.x + 1].walls.e = FALSE,
                      ![b.y + 1][b.x + 1].walls.w = FALSE]
        ELSE IF dy = 1 THEN
            [g EXCEPT ![a.y + 1][a.x + 1].walls.n = FALSE,
                      ![b.y + 1][b.x + 1].walls.s = FALSE]
        ELSE IF dy = -1 THEN
            [g EXCEPT ![a.y + 1][a.x + 1].walls.s = FALSE,
                      ![b.y + 1][b.x + 1].walls.n = FALSE]
        ELSE g

\* removeWall(a, b): clear the wall between two adjacent cells on both sides.
RemoveWall(g, a, b) ==
    LET dx == b.x - a.x
        dy == b.y - a.y
    IN  IF dx = 1 THEN
            [g EXCEPT ![a.y + 1][a.x + 1].walls.e = FALSE,
                      ![b.y + 1][b.x + 1].walls.w = FALSE]
        ELSE IF dx = -1 THEN
            [g EXCEPT ![a.y + 1][a.x + 1].walls.w = FALSE,
                      ![b.y + 1][b.x + 1].walls.e = FALSE]
        ELSE IF dy = 1 THEN
            [g EXCEPT ![a.y + 1][a.x + 1].walls.s = FALSE,
                      ![b.y + 1][b.x + 1].walls.n = FALSE]
        ELSE IF dy = -1 THEN
            [g EXCEPT ![a.y + 1][a.x + 1].walls.n = FALSE,
                      ![b.y + 1][b.x + 1].walls.s = FALSE]
        ELSE g

\* generate() that builds the grid only once and, on a grid that exists,
\* resets the visited flags and keeps the walls.
GenerateBeginKeepWalls ==
    /\ grid' = IF grid = <<>>
                 THEN [InitGrid(width, height) EXCEPT ![1][1].visited = TRUE]
                 ELSE [r \in 1..height |->
                        [c \in 1..width |->
                            [x |-> grid[r][c].x,
                             y |-> grid[r][c].y,
                             walls |-> grid[r][c].walls,
                             visited |-> (r = 1 /\ c = 1)]]]
    /\ stack' = <<[x |-> 0, y |-> 0]>>
    /\ pc' = "generating"
    /\ ret' = NoCall

\* The first lines of generate(): a fresh grid, the start cell grid[0][0]
\* marked visited and pushed.
GenerateBegin ==
    /\ grid' = [InitGrid(width, height) EXCEPT ![1][1].visited = TRUE]
    /\ stack' = <<[x |-> 0, y |-> 0]>>
    /\ pc' = "generating"
    /\ ret' = NoCall

\* grid[0][0] is a cell of grid g: it has a first row and that row a first
\* cell.
StartCellExists(g) == Len(g) >= 1 /\ Len(g[1]) >= 1

\* The constructor's call of generate() returning normally although
\* grid[0][0] is missing, leaving the empty grid as the maze.
ConstructEmptyMaze ==
    /\ pc = "new"
    /\ ~StartCellExists(InitGrid(width, height))
    /\ grid' = InitGrid(width, height)
    /\ pc' = "stable"
    /\ UNCHANGED <<width, height, start, goal, stack, origin, ret>>
    /\ UNCHANGED gameVars

\* new Maze(width, height) with width < 1 or height < 1: initGrid() builds no
\* cell, grid[0][0] is undefined (or grid[0] is) and generate() throws a
\* TypeError on it; the constructor throws and returns no maze.
ConstructThrows ==
    /\ pc = "new"
    /\ ~StartCellExists(InitGrid(width, height))
    /\ grid' = InitGrid(width, height)
    /\ pc' = "failed"
    /\ UNCHANGED <<width, height, start, goal, stack, origin, ret>>
    /\ UNCHANGED gameVars

\* new Maze(width, height) has stored its fields and calls generate().
Construct ==
    /\ pc = "new"
    /\ StartCellExists(InitGrid(width, height))
    /\ GenerateBegin
    /\ origin' = "constructor"
    /\ UNCHANGED <<width, height, start, goal>>
    /\ UNCHANGED gameVars

\* regenerate(): calls generate() on the stable maze.
Regenerate ==
    /\ pc = "stable"
    /\ GenerateBegin
    /\ origin' = "regenerate"
    /\ UNCHANGED <<width, height, start, goal>>
    /\ UNCHANGED gameVars

\* One iteration of the while loop whose top cell has no unvisited
\* neighbour: pop it.
GenerateBacktrack ==
    /\ pc = "generating"
    /\ Len(stack) > 0
    /\ LET current == stack[Len(stack)]
           neighbors == GetUnvisitedNeighbors(grid, current)
       IN  /\ Len(neighbors) = 0
           /\ stack' = SubSeq(stack, 1, Len(stack) - 1)
    /\ UNCHANGED <<width, height, grid, start, goal, pc, origin, ret>>
    /\ UNCHANGED gameVars

\* GenerateCarve carving from the bottom of the stack (stack[0]) instead of
\* its top.
GenerateCarveFromBottom ==
    /\ pc = "generating"
    /\ Len(stack) > 0
    /\ LET current == stack[1]
           neighbors == GetUnvisitedNeighbors(grid, current)
       IN  /\ Len(neighbors) # 0
           /\ \E i \in 1..Len(neighbors) :
                LET next == neighbors[i]
                    carved == RemoveWall(grid, current, next)
                IN  /\ grid' = [carved EXCEPT
                                  ![next.y + 1][next.x + 1].visited = TRUE]
                    /\ stack' = Append(stack, next)
    /\ UNCHANGED <<width, height, start, goal, pc, origin, ret>>
    /\ UNCHANGED gameVars

\* GenerateCarve marking and pushing the neighbour without removing the wall
\* to it.
GenerateCarveKeepsWall ==
    /\ pc = "generating"
    /\ Len(stack) > 0
    /\ LET current == stack[Len(stack)]
           neighbors == GetUnvisitedNeighbors(grid, current)
       IN  /\ Len(neighbors) # 0
           /\ \E i \in 1..Len(neighbors) :
                LET next == neighbors[i]
                IN  /\ grid' = [grid EXCEPT
                                  ![next.y + 1][next.x + 1].visited = TRUE]
                    /\ stack' = Append(stack, next)
    /\ UNCHANGED <<width, height, start, goal, pc, origin, ret>>
    /\ UNCHANGED gameVars

\* One iteration of the while loop that carves: a random unvisited neighbour
\* is chosen, the wall to it removed, it is marked visited and pushed.
GenerateCarve ==
    /\ pc = "generating"
    /\ Len(stack) > 0
    /\ LET current == stack[Len(stack)]
           neighbors == GetUnvisitedNeighbors(grid, current)
       IN  /\ Len(neighbors) # 0
           /\ \E i \in 1..Len(neighbors) :
                LET next == neighbors[i]
                    carved == RemoveWall(grid, current, next)
                IN  /\ grid' = [carved EXCEPT
                                  ![next.y + 1][next.x + 1].visited = TRUE]
                    /\ stack' = Append(stack, next)
    /\ UNCHANGED <<width, height, start, goal, pc, origin, ret>>
    /\ UNCHANGED gameVars

\* The cleanup resetting cell.visited to false in place of deleting it.
DeleteVisitedReset(cell) == [cell EXCEPT !.visited = FALSE]

\* delete cell.visited: the cell without its visited field.
DeleteVisited(cell) == [f \in DOMAIN cell \ {"visited"} |-> cell[f]]

\* The loop has ended (empty stack): the visited flags are deleted and
\* generate() returns.
GenerateCleanup ==
    /\ pc = "generating"
    /\ Len(stack) = 0
    /\ grid' = [r \in 1..height |->
                  [c \in 1..width |-> DeleteVisited(grid[r][c])]]
    /\ pc' = "stable"
    /\ UNCHANGED <<width, height, start, goal, stack, origin, ret>>
    /\ UNCHANGED gameVars

----------------------------------------------------------------------------
\* Queries

\* canMove looking at the direction before the bounds.
CanMoveDirectionFirst(x, y, direction) ==
    IF direction \notin Directions THEN INVALID_DIRECTION
    ELSE IF x < 0 \/ x >= width \/ y < 0 \/ y >= height THEN OUT_OF_BOUNDS
    ELSE IF At(grid, x, y).walls[direction] THEN BLOCKED_BY_WALL ELSE OPEN

\* canMove whose default branch returns false.
CanMoveDefaultOpen(x, y, direction) ==
    IF x < 0 \/ x >= width \/ y < 0 \/ y >= height THEN OUT_OF_BOUNDS
    ELSE IF direction \notin Directions THEN OPEN
    ELSE IF At(grid, x, y).walls[direction] THEN BLOCKED_BY_WALL ELSE OPEN

\* canMove with the east and west cases reading each other's flag.
CanMoveEastWestSwapped(x, y, direction) ==
    IF x < 0 \/ x >= width \/ y < 0 \/ y >= height THEN OUT_OF_BOUNDS
    ELSE LET cell == At(grid, x, y)
         IN  CASE direction = "n" ->
                    IF cell.walls.n THEN BLOCKED_BY_WALL ELSE OPEN
               [] direction = "e" ->
                    IF cell.walls.w THEN BLOCKED_BY_WALL ELSE OPEN
               [] direction = "s" ->
                    IF cell.walls.s THEN BLOCKED_BY_WALL ELSE OPEN
               [] direction = "w" ->
                    IF cell.walls.e THEN BLOCKED_BY_WALL ELSE OPEN
               [] OTHER -> INVALID_DIRECTION

\* canMove(x, y, direction)
CanMove(x, y, direction) ==
    IF x < 0 \/ x >= width \/ y < 0 \/ y >= height THEN OUT_OF_BOUNDS
    ELSE LET cell == At(grid, x, y)
         IN  CASE direction = "n" ->
                    IF cell.walls.n THEN BLOCKED_BY_WALL ELSE OPEN
               [] direction = "e" ->
                    IF cell.walls.e THEN BLOCKED_BY_WALL ELSE OPEN
               [] direction = "s" ->
                    IF cell.walls.s THEN BLOCKED_BY_WALL ELSE OPEN
               [] direction = "w" ->
                    IF cell.walls.w THEN BLOCKED_BY_WALL ELSE OPEN
               [] OTHER -> INVALID_DIRECTION

\* isGoal comparing both coordinates with goal.x.
IsGoalBothX(x, y) == x = goal.x /\ y = goal.x

\* isGoal(x, y)
IsGoal(x, y) == x = goal.x /\ y = goal.y

\* getCell with strict lower bounds: column 0 and row 0 are out of range.
GetCellStrictLower(x, y) ==
    IF x > 0 /\ x < width /\ y > 0 /\ y < height
        THEN At(grid, x, y)
        ELSE null

\* getCell(x, y)
GetCell(x, y) ==
    IF x >= 0 /\ x < width /\ y >= 0 /\ y < height
        THEN At(grid, x, y)
        ELSE null

\* getAdjacentWallCount without the line that counts the west wall.
GetAdjacentWallCountNoWest(x, y) ==
    LET cell == GetCell(x, y)
    IN  IF cell = null THEN 0
        ELSE (IF cell.walls.n THEN 1 ELSE 0)
           + (IF cell.walls.e THEN 1 ELSE 0)
           + (IF cell.walls.s THEN 1 ELSE 0)

\* getAdjacentWallCount(x, y)
GetAdjacentWallCount(x, y) ==
    LET cell == GetCell(x, y)
    IN  IF cell = null THEN 0
        ELSE (IF cell.walls.n THEN 1 ELSE 0)
           + (IF cell.walls.e THEN 1 ELSE 0)
           + (IF cell.walls.s THEN 1 ELSE 0)
           + (IF cell.walls.w THEN 1 ELSE 0)

\* The coordinates the queries are called with: the grid and one cell
\* beyond it on every side.
QueryXs == -1..width
QueryYs == -1..height

\* The call a recorded result belongs to: the operation and its arguments.
Key(r) == [f \in DOMAIN r \ {"val", "again"} |-> r[f]]

\* canMove as a call that knocks down the wall it has just reported.
CallCanMoveClearing(x, y, d) ==
    /\ pc = "stable"
    /\ LET call == [op |-> "canMove", x |-> x, y |-> y, d |-> d]
       IN  ret' = [op |-> "canMove", x |-> x, y |-> y, d |-> d,
                   val |-> CanMove(x, y, d), again |-> Key(ret) = call]
    /\ grid' = IF CanMove(x, y, d) = BLOCKED_BY_WALL
                 THEN [grid EXCEPT ![y + 1][x + 1].walls[d] = FALSE]
                 ELSE grid
    /\ UNCHANGED <<width, height, start, goal, stack, pc, origin>>
    /\ UNCHANGED gameVars

\* A caller calls canMove(x, y, d) on the stable maze.
CallCanMove(x, y, d) ==
    /\ pc = "stable"
    /\ LET call == [op |-> "canMove", x |-> x, y |-> y, d |-> d]
       IN  ret' = [op |-> "canMove", x |-> x, y |-> y, d |-> d,
                   val |-> CanMove(x, y, d), again |-> Key(ret) = call]
    /\ UNCHANGED <<width, height, grid, start, goal, stack, pc, origin>>
    /\ UNCHANGED gameVars

\* A caller calls isGoal(x, y) on the stable maze.
CallIsGoal(x, y) ==
    /\ pc = "stable"
    /\ LET call == [op |-> "isGoal", x |-> x, y |-> y]
       IN  ret' = [op |-> "isGoal", x |-> x, y |-> y,
                   val |-> IsGoal(x, y), again |-> Key(ret) = call]
    /\ UNCHANGED <<width, height, grid, start, goal, stack, pc, origin>>
    /\ UNCHANGED gameVars

\* A caller calls getCell(x, y) on the stable maze.
CallGetCell(x, y) ==
    /\ pc = "stable"
    /\ LET call == [op |-> "getCell", x |-> x, y |-> y]
       IN  ret' = [op |-> "getCell", x |-> x, y |-> y,
                   val |-> GetCell(x, y), again |-> Key(ret) = call]
    /\ UNCHANGED <<width, height, grid, start, goal, stack, pc, origin>>
    /\ UNCHANGED gameVars

\* A caller calls getAdjacentWallCount(x, y) on the stable maze.
CallGetAdjacentWallCount(x, y) ==
    /\ pc = "stable"
    /\ LET call == [op |-> "getAdjacentWallCount", x |-> x, y |-> y]
       IN  ret' = [op |-> "getAdjacentWallCount", x |-> x, y |-> y,
                   val |-> GetAdjacentWallCount(x, y),
                   again |-> Key(ret) = call]
    /\ UNCHANGED <<width, height, grid, start, goal, stack, pc, origin>>
    /\ UNCHANGED gameVars

----------------------------------------------------------------------------
\* generate() as one call

\* The while loop of generate() run to its end from grid g and stack st, and
\* the cleanup after it: the set of grids the call can return, one for every
\* way of choosing the neighbours.
RECURSIVE RunGenerate(_, _, _, _)
RunGenerate(w, h, g, st) ==
    IF Len(st) = 0
        THEN {[r \in 1..h |-> [c \in 1..w |-> DeleteVisited(g[r][c])]]}
        ELSE LET current == st[Len(st)]
                 neighbors == UnvisitedNeighborsIn(w, h, g, current)
             IN  IF Len(neighbors) = 0
                     THEN RunGenerate(w, h, g, SubSeq(st, 1, Len(st) - 1))
                     ELSE UNION {
                            RunGenerate(w, h,
                                [RemoveWall(g, current, neighbors[i]) EXCEPT
                                    ![neighbors[i].y + 1][neighbors[i].x + 1]
                                        .visited = TRUE],
                                Append(st, neighbors[i])) :
                            i \in 1..Len(neighbors)}

\* GeneratedGrids with the start cell never pushed on the stack.
GeneratedGridsEmptyStack(w, h) ==
    RunGenerate(w, h, [InitGrid(w, h) EXCEPT ![1][1].visited = TRUE], <<>>)

\* The grids generate() can leave on a maze of width w and height h.
GeneratedGrids(w, h) ==
    RunGenerate(w, h, [InitGrid(w, h) EXCEPT ![1][1].visited = TRUE],
                <<[x |-> 0, y |-> 0]>>)

\* The grids regenerate() can leave on the Game's maze.
GameGrids == GeneratedGrids(GameSize, GameSize)

----------------------------------------------------------------------------
\* The Game controller (src/js/main.js) and its Player

\* The keys pressed: the twelve keys handleKeyDown maps and one it does not.
Keys == {"ArrowUp", "w", "W", "ArrowDown", "s", "S",
         "ArrowLeft", "a", "A", "ArrowRight", "d", "D", "q"}

\* KeyDirection with the vertical steps exchanged: up steps to y + 1 and
\* down to y - 1, the directions asked of canMove as they were.
KeyDirectionFlipped(key) ==
    CASE key \in {"ArrowUp", "w", "W"} ->
            [direction |-> "n", dx |-> 0, dy |-> 1]
      [] key \in {"ArrowDown", "s", "S"} ->
            [direction |-> "s", dx |-> 0, dy |-> -1]
      [] key \in {"ArrowLeft", "a", "A"} ->
            [direction |-> "w", dx |-> -1, dy |-> 0]
      [] key \in {"ArrowRight", "d", "D"} ->
            [direction |-> "e", dx |-> 1, dy |-> 0]
      [] OTHER -> [direction |-> "none", dx |-> 0, dy |-> 0]

\* The switch of handleKeyDown: the direction and the step of a key; no
\* direction for a key that falls to the default case.
KeyDirection(key) ==
    CASE key \in {"ArrowUp", "w", "W"} ->
            [direction |-> "n", dx |-> 0, dy |-> -1]
      [] key \in {"ArrowDown", "s", "S"} ->
            [direction |-> "s", dx |-> 0, dy |-> 1]
      [] key \in {"ArrowLeft", "a", "A"} ->
            [direction |-> "w", dx |-> -1, dy |-> 0]
      [] key \in {"ArrowRight", "d", "D"} ->
            [direction |-> "e", dx |-> 1, dy |-> 0]
      [] OTHER -> [direction |-> "none", dx |-> 0, dy |-> 0]

\* canAcceptInput() that forgets the bounce.
CanAcceptInputWhileBouncing == ~isMoving

\* Player.canAcceptInput()
CanAcceptInput == ~isMoving /\ ~isBouncing

\* The energy left without the floor of Math.max.
Max0NoFloor(a) == a

\* Math.max(0, a)
Max0(a) == IF a > 0 THEN a ELSE 0

\* handleMove that calls triggerWin() whatever the destination.
HandleMoveWinsAnywhere(dx, dy) ==
    LET newX == gridX + dx
        newY == gridY + dy
    IN  /\ moveTo' = [x |-> newX, y |-> newY]
        /\ isMoving' = TRUE
        /\ moveCount' = moveCount + 1
        /\ state' = "winning"
        /\ UNCHANGED <<gridX, gridY, isBouncing, collisionCount, energy,
                       winProgress, blockedAttempts>>

\* handleMove(dx, dy): the move to the next cell is started and counted; the
\* game is won if that cell is the goal (triggerWin sets state 'winning').
HandleMove(dx, dy) ==
    LET newX == gridX + dx
        newY == gridY + dy
    IN  /\ moveTo' = [x |-> newX, y |-> newY]
        /\ isMoving' = TRUE
        /\ moveCount' = moveCount + 1
        /\ state' = IF IsGoal(newX, newY) THEN "winning" ELSE state
        /\ UNCHANGED <<gridX, gridY, isBouncing, collisionCount, energy,
                       winProgress, blockedAttempts>>

\* handleCollision(direction, dx, dy): player.bounce() starts the bounce and
\* counts the collision unless a bounce is running, handleCollision counts it
\* again, energy is lost, and the game is over if none is left
\* (triggerGameOver sets state 'gameover').
HandleCollision ==
    /\ isBouncing' = TRUE
    /\ collisionCount' =
          (IF isBouncing THEN collisionCount ELSE collisionCount + 1) + 1
    /\ blockedAttempts' = blockedAttempts + 1
    /\ energy' = Max0(energy - EnergyLossPerCollision)
    /\ state' = IF Max0(energy - EnergyLossPerCollision) <= 0
                   THEN "gameover" ELSE state
    /\ UNCHANGED <<gridX, gridY, isMoving, moveTo, moveCount, winProgress>>

\* handleKeyDown with a collision that knocks down the wall it hits.
HandleKeyDownBreaksWall(key) ==
    LET k == KeyDirection(key)
        blocked == CanMove(gridX, gridY, k.direction)
        ignored == state # "playing" \/ ~CanAcceptInput
                      \/ k.direction = "none"
    IN  /\ gpc = "idle"
        /\ moveCount < MaxMoves
        /\ event' = "keydown"
        /\ IF ignored
              THEN UNCHANGED <<state, winProgress, energy, hasMovedOnce,
                               playerVars, blockedAttempts>>
              ELSE /\ hasMovedOnce' = TRUE
                   /\ IF blocked # OPEN
                          THEN HandleCollision
                          ELSE HandleMove(k.dx, k.dy)
        /\ grid' = IF ~ignored /\ blocked = BLOCKED_BY_WALL
                      THEN RemoveWall(grid, [x |-> gridX, y |-> gridY],
                                      [x |-> gridX + k.dx, y |-> gridY + k.dy])
                      ELSE grid
        /\ UNCHANGED <<width, height, start, goal, stack, pc, origin, ret,
                       gpc>>

\* handleKeyDown(e) with e.key = key.
HandleKeyDown(key) ==
    /\ gpc = "idle"
    /\ moveCount < MaxMoves
    /\ event' = "keydown"
    /\ IF state # "playing" \/ ~CanAcceptInput
          \/ KeyDirection(key).direction = "none"
        THEN UNCHANGED <<state, winProgress, energy, hasMovedOnce,
                         playerVars, blockedAttempts>>
        ELSE /\ hasMovedOnce' = TRUE
             /\ IF CanMove(gridX, gridY, KeyDirection(key).direction) # OPEN
                    THEN HandleCollision
                    ELSE HandleMove(KeyDirection(key).dx, KeyDirection(key).dy)
    /\ UNCHANGED <<width, height, grid, start, goal, stack, pc, origin, ret,
                   gpc>>

\* gameLoop testing the time limit in every state, not only in 'playing'.
GameLoopTimeAlways(moveDone, bounceDone, timeUp) ==
    /\ gpc = "idle"
    /\ event' = "frame"
    \* player.update(currentTime)
    /\ IF isMoving /\ moveDone
          THEN /\ isMoving' = FALSE
               /\ gridX' = moveTo.x
               /\ gridY' = moveTo.y
          ELSE UNCHANGED <<isMoving, gridX, gridY>>
    /\ isBouncing' = IF isBouncing /\ bounceDone THEN FALSE ELSE isBouncing
    \* updateHUD(), then the win progression
    /\ LET afterHUD == IF hasMovedOnce /\ timeUp
                          THEN "gameover" ELSE state
       IN  IF afterHUD = "winning"
              THEN /\ winProgress' = winProgress + WinProgressPerFrame
                   /\ state' = IF winProgress + WinProgressPerFrame
                                      >= WinProgressDone
                                  THEN "won" ELSE afterHUD
              ELSE /\ winProgress' = winProgress
                   /\ state' = afterHUD
    /\ UNCHANGED <<width, height, grid, start, goal, stack, pc, origin, ret,
                   gpc, energy, hasMovedOnce, moveTo, moveCount,
                   collisionCount, blockedAttempts>>

\* gameLoop with the win progression never advanced.
GameLoopNoProgress(moveDone, bounceDone, timeUp) ==
    /\ gpc = "idle"
    /\ event' = "frame"
    \* player.update(currentTime)
    /\ IF isMoving /\ moveDone
          THEN /\ isMoving' = FALSE
               /\ gridX' = moveTo.x
               /\ gridY' = moveTo.y
          ELSE UNCHANGED <<isMoving, gridX, gridY>>
    /\ isBouncing' = IF isBouncing /\ bounceDone THEN FALSE ELSE isBouncing
    \* updateHUD(), then the win progression
    /\ LET afterHUD == IF state = "playing" /\ hasMovedOnce /\ timeUp
                          THEN "gameover" ELSE state
       IN  IF afterHUD = "winning"
              THEN /\ winProgress' = winProgress
                   /\ state' = IF winProgress >= WinProgressDone
                                  THEN "won" ELSE afterHUD
              ELSE /\ winProgress' = winProgress
                   /\ state' = afterHUD
    /\ UNCHANGED <<width, height, grid, start, goal, stack, pc, origin, ret,
                   gpc, energy, hasMovedOnce, moveTo, moveCount,
                   collisionCount, blockedAttempts>>

\* gameLoop(currentTime), one animation frame. moveDone and bounceDone say
\* whether the time of the frame ends the running move (280 ms) and the
\* running bounce (150 ms); timeUp says whether the 180 s since the first
\* move are over (remainingTime <= 0 in updateHUD).
GameLoop(moveDone, bounceDone, timeUp) ==
    /\ gpc = "idle"
    /\ event' = "frame"
    \* player.update(currentTime)
    /\ IF isMoving /\ moveDone
          THEN /\ isMoving' = FALSE
               /\ gridX' = moveTo.x
               /\ gridY' = moveTo.y
          ELSE UNCHANGED <<isMoving, gridX, gridY>>
    /\ isBouncing' = IF isBouncing /\ bounceDone THEN FALSE ELSE isBouncing
    \* updateHUD(), then the win progression
    /\ LET afterHUD == IF state = "playing" /\ hasMovedOnce /\ timeUp
                          THEN "gameover" ELSE state
       IN  IF afterHUD = "winning"
              THEN /\ winProgress' = winProgress + WinProgressPerFrame
                   /\ state' = IF winProgress + WinProgressPerFrame
                                      >= WinProgressDone
                                  THEN "won" ELSE afterHUD
              ELSE /\ winProgress' = winProgress
                   /\ state' = afterHUD
    /\ UNCHANGED <<width, height, grid, start, goal, stack, pc, origin, ret,
                   gpc, energy, hasMovedOnce, moveTo, moveCount,
                   collisionCount, blockedAttempts>>

\* restart() with a reset that leaves a move in flight.
RestartKeepsMoving ==
    /\ gpc = "idle"
    /\ event' = "restart"
    /\ grid' \in GameGrids
    /\ stack' = <<>>
    /\ origin' = "regenerate"
    /\ ret' = NoCall
    /\ gridX' = 0
    /\ gridY' = 0
    /\ isBouncing' = FALSE
    /\ moveCount' = 0
    /\ collisionCount' = 0
    /\ blockedAttempts' = 0
    /\ state' = "playing"
    /\ winProgress' = 0
    /\ hasMovedOnce' = FALSE
    /\ energy' = MaxEnergy
    /\ UNCHANGED <<width, height, start, goal, pc, gpc, moveTo, isMoving>>

\* restart(): maze.regenerate() run to its end, player.reset(0, 0), and the
\* session fields set back.
Restart ==
    /\ gpc = "idle"
    /\ event' = "restart"
    /\ grid' \in GameGrids
    /\ stack' = <<>>
    /\ origin' = "regenerate"
    /\ ret' = NoCall
    /\ gridX' = 0
    /\ gridY' = 0
    /\ isMoving' = FALSE
    /\ isBouncing' = FALSE
    /\ moveCount' = 0
    /\ collisionCount' = 0
    /\ blockedAttempts' = 0
    /\ state' = "playing"
    /\ winProgress' = 0
    /\ hasMovedOnce' = FALSE
    /\ energy' = MaxEnergy
    /\ UNCHANGED <<width, height, start, goal, pc, gpc, moveTo>>

\* GameReady with the listeners added and the first frame requested while
\* generate() is still carving.
GameReadyEarly ==
    /\ gpc = "constructing"
    /\ pc = "generating"
    /\ gpc' = "idle"
    /\ UNCHANGED <<width, height, grid, start, goal, stack, pc, origin, ret,
                   event, state, winProgress, energy, hasMovedOnce,
                   playerVars, blockedAttempts>>

\* The Game constructor after new Maze(...) has returned: the fields are
\* set, the listeners added and the first frame requested.
GameReady ==
    /\ gpc = "constructing"
    /\ pc = "stable"
    /\ gpc' = "idle"
    /\ UNCHANGED <<width, height, grid, start, goal, stack, pc, origin, ret,
                   event, state, winProgress, energy, hasMovedOnce,
                   playerVars, blockedAttempts>>

----------------------------------------------------------------------------
\* Specification

\* The constructor has stored width, height, an empty grid, start and goal,
\* and is about to call generate().
Init ==
    /\ width \in 1..MaxWidth
    /\ height \in 1..MaxHeight
    /\ grid = <<>>
    /\ start = [x |-> 0, y |-> 0]
    /\ goal = [x |-> width - 1, y |-> height - 1]
    /\ stack = <<>>
    /\ pc = "new"
    /\ origin = "constructor"
    /\ ret = NoCall
    /\ NoGame

Next ==
    \/ Construct
    \/ Regenerate
    \/ GenerateBacktrack
    \/ GenerateCarve
    \/ GenerateCleanup
    \/ \E x \in QueryXs, y \in QueryYs, d \in Tokens : CallCanMove(x, y, d)
    \/ \E x \in QueryXs, y \in QueryYs : CallIsGoal(x, y)
    \/ \E x \in QueryXs, y \in QueryYs : CallGetCell(x, y)
    \/ \E x \in QueryXs, y \in QueryYs : CallGetAdjacentWallCount(x, y)

Spec == Init /\ [][Next]_vars

\* The constructor setting goal to (width, height).
InitGenGoalOffByOne ==
    /\ width \in 1..MaxGenWidth
    /\ height \in 1..MaxGenHeight
    /\ grid = <<>>
    /\ start = [x |-> 0, y |-> 0]
    /\ goal = [x |-> width, y |-> height]
    /\ stack = <<>>
    /\ pc = "new"
    /\ origin = "constructor"
    /\ ret = NoCall
    /\ NoGame

\* Generation alone: the constructor and regenerate() on the larger grids,
\* with no query in between.
InitGen ==
    /\ width \in 1..MaxGenWidth
    /\ height \in 1..MaxGenHeight
    /\ grid = <<>>
    /\ start = [x |-> 0, y |-> 0]
    /\ goal = [x |-> width - 1, y |-> height - 1]
    /\ stack = <<>>
    /\ pc = "new"
    /\ origin = "constructor"
    /\ ret = NoCall
    /\ NoGame

NextGen ==
    \/ Construct
    \/ Regenerate
    \/ GenerateBacktrack
    \/ GenerateCarve
    \/ GenerateCleanup

SpecGen == InitGen /\ [][NextGen]_vars

\* Generation with its scheduling: generate() is one synchronous call, so
\* the constructor's call of it, every iteration of its loop and its cleanup
\* are taken as soon as they are due.
SpecGenFair ==
    /\ InitGen
    /\ [][NextGen]_vars
    /\ WF_vars(Construct)
    /\ WF_vars(GenerateBacktrack)
    /\ WF_vars(GenerateCarve)
    /\ WF_vars(GenerateCleanup)

\* Construction with any dimensions, malformed ones included.
InitDims ==
    /\ width \in (0 - MaxBadDim)..MaxGenWidth
    /\ height \in (0 - MaxBadDim)..MaxGenHeight
    /\ grid = <<>>
    /\ start = [x |-> 0, y |-> 0]
    /\ goal = [x |-> width - 1, y |-> height - 1]
    /\ stack = <<>>
    /\ pc = "new"
    /\ origin = "constructor"
    /\ ret = NoCall
    /\ NoGame

NextDims ==
    \/ Construct
    \/ ConstructThrows
    \/ Regenerate
    \/ GenerateBacktrack
    \/ GenerateCarve
    \/ GenerateCleanup

SpecDims == InitDims /\ [][NextDims]_vars

\* The Game: new Game() constructs its maze, then serves key presses,
\* animation frames and restarts.
InitGame ==
    /\ width = GameSize
    /\ height = GameSize
    /\ grid = <<>>
    /\ start = [x |-> 0, y |-> 0]
    /\ goal = [x |-> width - 1, y |-> height - 1]
    /\ stack = <<>>
    /\ pc = "new"
    /\ origin = "constructor"
    /\ ret = NoCall
    /\ gpc = "constructing"
    /\ event = "none"
    /\ FreshSession

NextGame ==
    \/ Construct
    \/ GenerateBacktrack
    \/ GenerateCarve
    \/ GenerateCleanup
    \/ GameReady
    \/ \E key \in Keys : HandleKeyDown(key)
    \/ \E moveDone \in BOOLEAN, bounceDone \in BOOLEAN, timeUp \in BOOLEAN :
            GameLoop(moveDone, bounceDone, timeUp)
    \/ Restart

SpecGame == InitGame /\ [][NextGame]_vars

\* The Game with its loop kept going: every frame requests the next one
\* (requestAnimationFrame at the end of gameLoop), so a frame is always
\* served again.
SpecGameFair ==
    /\ InitGame
    /\ [][NextGame]_vars
    /\ WF_vars(\E moveDone \in BOOLEAN, bounceDone \in BOOLEAN,
                  timeUp \in BOOLEAN :
                    GameLoop(moveDone, bounceDone, timeUp))

----------------------------------------------------------------------------
\* The open-adjacency graph of the grid

\* All cells of the grid, by coordinates.
Cells == {[x |-> i, y |-> j] : i \in 0..(width - 1), j \in 0..(height - 1)}

InBounds(x, y) == x >= 0 /\ x < width /\ y >= 0 /\ y < height

\* The grid has been built by initGrid().
Built == pc # "new"

\* The cell one step from cell a in direction d.
StepFrom(a, d) ==
    CASE d = "n" -> [x |-> a.x, y |-> a.y - 1]
      [] d = "e" -> [x |-> a.x + 1, y |-> a.y]
      [] d = "s" -> [x |-> a.x, y |-> a.y + 1]
      [] d = "w" -> [x |-> a.x - 1, y |-> a.y]

Opposite(d) ==
    CASE d = "n" -> "s" [] d = "e" -> "w" [] d = "s" -> "n" [] d = "w" -> "e"

\* The in-bounds orthogonal neighbours of cell a with no wall flag set
\* between a and them, on either side.
OpenNeighbors(a) ==
    LET open == {d \in Directions :
                    /\ InBounds(StepFrom(a, d).x, StepFrom(a, d).y)
                    /\ ~At(grid, a.x, a.y).walls[d]
                    /\ ~At(grid, StepFrom(a, d).x,
                                 StepFrom(a, d).y).walls[Opposite(d)]}
    IN  {StepFrom(a, d) : d \in open}

\* Cells a and b are joined by an open adjacency.
OpenBetween(a, b) == b \in OpenNeighbors(a)

\* The open adjacencies, each as the set of its two cells.
OpenEdges == UNION {{{a, b} : b \in OpenNeighbors(a)} : a \in Cells}

\* The cells reachable over open adjacencies from the cells of S, F being
\* the cells of S whose neighbours are still to be added.
RECURSIVE ReachOpen(_, _)
ReachOpen(S, F) ==
    IF F = {} THEN S
    ELSE LET N == (UNION {OpenNeighbors(a) : a \in F}) \ S
         IN  ReachOpen(S \cup N, N)

\* Cycle test: strip the cells with at most one open neighbour left in V
\* from V until no such cell is left; a cycle survives the stripping.
RECURSIVE Strip(_)
Strip(V) ==
    LET leaves == {a \in V : Cardinality(OpenNeighbors(a) \cap V) <= 1}
    IN  IF leaves = {} THEN V ELSE Strip(V \ leaves)

Acyclic == Strip(Cells) = {}

\* The simple paths over open adjacencies that extend path p to cell b.
RECURSIVE SimplePaths(_, _)
SimplePaths(p, b) ==
    IF p[Len(p)] = b THEN {p}
    ELSE UNION {SimplePaths(Append(p, c), b) :
                  c \in OpenNeighbors(p[Len(p)]) \ {p[i] : i \in 1..Len(p)}}

SpanningTree ==
    /\ ReachOpen({[x |-> 0, y |-> 0]}, {[x |-> 0, y |-> 0]}) = Cells
    /\ Cardinality(OpenEdges) = width * height - 1
    /\ Acyclic
    /\ \A a \in Cells, b \in Cells : Cardinality(SimplePaths(<<a>>, b)) = 1

\* The cells reachable from the cells of S by steps canMove reports open;
\* a step is taken wherever it leads, in the grid or not.
RECURSIVE ReachByCanMove(_, _)
ReachByCanMove(S, F) ==
    IF F = {} THEN S
    ELSE LET steps == {m \in F \X Directions :
                          CanMove(m[1].x, m[1].y, m[2]) = OPEN}
             N == {StepFrom(m[1], m[2]) : m \in steps} \ S
         IN  ReachByCanMove(S \cup N, N)

----------------------------------------------------------------------------
\* Properties

\* C1: after construction and after every regenerate(), the open adjacencies
\* form a spanning tree of the grid: every cell is reachable from (0,0), there
\* are exactly width*height - 1 open edges, no cycle, and exactly one simple
\* path between any two cells.
C1_SpanningTree == pc = "stable" => SpanningTree

\* A regenerated 2x2 maze, with its 3 open edges.
C1_Witness ==
    /\ pc = "stable"
    /\ origin = "regenerate"
    /\ width = 2 /\ height = 2
    /\ Cardinality(OpenEdges) = 3

\* C2: wall symmetry: in every state after a carving step (and in every stable
\* maze), for adjacent in-bounds cells A and B, A's wall flag facing B equals
\* B's wall flag facing A.
C2_WallSymmetry ==
    Built =>
        \A a \in Cells : \A d \in Directions :
            LET b == StepFrom(a, d)
            IN  InBounds(b.x, b.y) =>
                    At(grid, a.x, a.y).walls[d]
                        = At(grid, b.x, b.y).walls[Opposite(d)]

\* A carving step has completed: some shared wall is cleared, on both sides.
C2_Witness ==
    /\ pc = "generating"
    /\ Len(stack) >= 2
    /\ \E a \in Cells, b \in Cells : OpenBetween(a, b)

\* C3: in every generated maze the goal (width-1, height-1) is reachable from
\* (0,0) by steps that canMove reports open from the cell being left, and
\* every such step lands on an in-bounds cell.
C3_SolutionExists ==
    pc = "stable" =>
        LET R == ReachByCanMove({[x |-> 0, y |-> 0]}, {[x |-> 0, y |-> 0]})
        IN  /\ [x |-> width - 1, y |-> height - 1] \in R
            /\ R \subseteq Cells

\* A stable maze on the largest grid whose goal is not the start and is
\* reached over open canMove steps.
C3_Witness ==
    /\ pc = "stable"
    /\ width = MaxGenWidth /\ height = MaxGenHeight
    /\ [x |-> width - 1, y |-> height - 1]
          \in ReachByCanMove({[x |-> 0, y |-> 0]}, {[x |-> 0, y |-> 0]})
                \ {[x |-> 0, y |-> 0]}

\* C4: canMove checks bounds first: from any (x, y) outside the grid it
\* returns OUT_OF_BOUNDS for every direction token, recognised or not.
C4_BoundsFirst ==
    (ret.op = "canMove" /\ ~InBounds(ret.x, ret.y)) => ret.val = OUT_OF_BOUNDS

\* canMove(width, 0, 'north'), an unrecognised token, returned OUT_OF_BOUNDS.
C4_Witness ==
    /\ ret.op = "canMove"
    /\ ret.x = width /\ ret.y = 0
    /\ ret.d \notin Directions
    /\ ret.val = OUT_OF_BOUNDS

\* C5: for in-bounds (x, y) and an unrecognised direction token, canMove
\* returns INVALID_DIRECTION, a value different from OPEN, BLOCKED_BY_WALL and
\* OUT_OF_BOUNDS.
C5_InvalidDirection ==
    (ret.op = "canMove" /\ InBounds(ret.x, ret.y) /\ ret.d \notin Directions)
        => /\ ret.val = INVALID_DIRECTION
           /\ ret.val \notin {OPEN, BLOCKED_BY_WALL, OUT_OF_BOUNDS}

\* canMove from an in-bounds cell with an unrecognised token has returned.
C5_Witness ==
    /\ ret.op = "canMove"
    /\ InBounds(ret.x, ret.y)
    /\ ret.d \notin Directions
    /\ ret.val = INVALID_DIRECTION

\* C6: for in-bounds (x, y) and a recognised direction d, canMove returns
\* BLOCKED_BY_WALL iff the wall flag of cell (x, y) on side d is set, and OPEN
\* otherwise.
C6_WallFlagDecides ==
    (ret.op = "canMove" /\ InBounds(ret.x, ret.y) /\ ret.d \in Directions)
        => /\ ret.val \in {BLOCKED_BY_WALL, OPEN}
           /\ ret.val = BLOCKED_BY_WALL <=> At(grid, ret.x, ret.y).walls[ret.d]

\* canMove reported an open side of a cell that has another side walled.
C6_Witness ==
    /\ ret.op = "canMove"
    /\ InBounds(ret.x, ret.y)
    /\ ret.d \in Directions
    /\ ret.val = OPEN
    /\ \E d \in Directions : At(grid, ret.x, ret.y).walls[d]

\* C7: in every generated maze every cell on the outer edge keeps its
\* outward-facing wall flags set, so canMove from an in-bounds cell toward the
\* outside of the grid returns BLOCKED_BY_WALL.
C7_OuterWallsStay ==
    pc = "stable" =>
        \A a \in Cells : \A d \in Directions :
            LET b == StepFrom(a, d)
            IN  ~InBounds(b.x, b.y) =>
                    /\ At(grid, a.x, a.y).walls[d]
                    /\ CanMove(a.x, a.y, d) = BLOCKED_BY_WALL

\* A stable maze on the largest grid whose goal cell has been carved into
\* and still reports BLOCKED_BY_WALL toward the outside, east and south.
C7_Witness ==
    /\ pc = "stable"
    /\ width = MaxGenWidth /\ height = MaxGenHeight
    /\ \E d \in {"n", "w"} : CanMove(width - 1, height - 1, d) = OPEN
    /\ CanMove(width - 1, height - 1, "e") = BLOCKED_BY_WALL
    /\ CanMove(width - 1, height - 1, "s") = BLOCKED_BY_WALL

\* A step taken while the maze is stable: a query call.
QueryStep == pc = "stable" /\ pc' = "stable"

\* C8: the queries are pure reads: a query leaves every wall flag, width,
\* height, start and goal unchanged, and a call repeated with identical
\* arguments on the stable maze returns the identical result.
C8_PureReads ==
    [][QueryStep =>
        /\ UNCHANGED mazeVars
        /\ (ret.op # "none" /\ Key(ret') = Key(ret)) => ret'.val = ret.val]_vars

\* canMove was called twice in a row with the same arguments.
C8_Witness ==
    /\ pc = "stable"
    /\ ret.op = "canMove"
    /\ ret.again
    /\ ret.val = BLOCKED_BY_WALL

\* C9: isGoal(x, y) is true iff x = width-1 and y = height-1, out-of-bounds
\* coordinates included.
C9_IsGoal ==
    ret.op = "isGoal" => (ret.val <=> (ret.x = width - 1 /\ ret.y = height - 1))

\* isGoal returned true on a grid that is not square.
C9_Witness ==
    /\ ret.op = "isGoal"
    /\ ret.val
    /\ width # height

\* C10: getCell(x, y) returns the cell whose stored coordinates are (x, y) for
\* in-range coordinates and null for every out-of-range one.
C10_GetCell ==
    ret.op = "getCell" =>
        IF InBounds(ret.x, ret.y)
            THEN /\ ret.val # null
                 /\ ret.val.x = ret.x
                 /\ ret.val.y = ret.y
            ELSE ret.val = null

\* getCell returned the cell of column 0 off the diagonal.
C10_Witness ==
    /\ ret.op = "getCell"
    /\ ret.x = 0 /\ ret.y = 1
    /\ ret.val # null
    /\ ret.val.x = 0 /\ ret.val.y = 1

\* The number of wall flags set on the cell at (x, y) of the grid.
WallFlagsSet(x, y) ==
    Cardinality({d \in Directions : At(grid, x, y).walls[d]})

\* C11: getAdjacentWallCount(x, y) returns, for an in-bounds cell, the number
\* of its four wall flags that are set, an integer in 0..4, and 0 for every
\* out-of-range coordinate.
C11_AdjacentWallCount ==
    ret.op = "getAdjacentWallCount" =>
        /\ ret.val \in 0..4
        /\ ret.val = IF InBounds(ret.x, ret.y)
                        THEN WallFlagsSet(ret.x, ret.y)
                        ELSE 0

\* getAdjacentWallCount returned 2 for an in-bounds cell whose west wall is
\* one of the two set.
C11_Witness ==
    /\ ret.op = "getAdjacentWallCount"
    /\ InBounds(ret.x, ret.y)
    /\ ret.val = 2
    /\ At(grid, ret.x, ret.y).walls.w

\* C12: width and height stay what the constructor stored, start is (0, 0)
\* and goal is (width-1, height-1) after every step, regenerate() included.
C12_FixedFields ==
    [][/\ width' = width
       /\ height' = height
       /\ start' = [x |-> 0, y |-> 0]
       /\ goal' = [x |-> width - 1, y |-> height - 1]]_vars

\* A regenerated maze on the largest grid, start and goal in place.
C12_Witness ==
    /\ pc = "stable"
    /\ origin = "regenerate"
    /\ width = MaxGenWidth /\ height = MaxGenHeight
    /\ start = [x |-> 0, y |-> 0]
    /\ goal = [x |-> MaxGenWidth - 1, y |-> MaxGenHeight - 1]

\* Generation starts: the step the constructor and regenerate() both make.
GenerationStarts == pc # "generating" /\ pc' = "generating"

\* C13: regenerate() restarts from a grid in which every cell has all four
\* walls set and only (0,0) is visited and stacked, whatever the walls were
\* before the call: the state a fresh construction starts generation from,
\* hence with the same layouts ahead of it.
C13_FullReplace ==
    [][GenerationStarts =>
        /\ \A a \in Cells :
            /\ \A d \in Directions : At(grid', a.x, a.y).walls[d]
            /\ At(grid', a.x, a.y).visited = (a = [x |-> 0, y |-> 0])
        /\ stack' = <<[x |-> 0, y |-> 0]>>
        /\ ret' = NoCall]_vars

\* regenerate() has been called on a carved maze and carving has started
\* again: the first wall of the new maze is open, nothing else is.
C13_Witness ==
    /\ pc = "generating"
    /\ origin = "regenerate"
    /\ width = MaxGenWidth /\ height = MaxGenHeight
    /\ Len(stack) = 2
    /\ Cardinality(OpenEdges) = 1

\* Every cell of the grid carries the visited mark.
AllVisited == \A a \in Cells : At(grid, a.x, a.y).visited

\* The cells on the stack.
OnStack == {stack[i] : i \in 1..Len(stack)}

\* A step of generate() that pushes a cell: the cell pushed was neither
\* visited nor on the stack before the step and is visited after it.
PushesFreshCell ==
    LET c == stack'[Len(stack')]
    IN  /\ stack' = Append(stack, c)
        /\ c \notin OnStack
        /\ ~At(grid, c.x, c.y).visited
        /\ At(grid', c.x, c.y).visited

\* A step inside generate() keeps every visited mark already set.
KeepsVisited ==
    \A a \in Cells : At(grid, a.x, a.y).visited => At(grid', a.x, a.y).visited

\* C14: generation terminates: whatever neighbours are chosen the stack
\* becomes empty, every cell is visited at that point, and each cell is marked
\* visited and pushed exactly once (a push takes an unvisited cell, marks it,
\* and no mark is taken back while generation runs).
C14_Terminates ==
    /\ (pc = "generating") ~> (pc = "generating" /\ stack = <<>>)
    /\ [](pc = "generating" /\ stack = <<>> => AllVisited)
    /\ [][(pc = "generating" /\ pc' = "generating") =>
            /\ Len(stack') > Len(stack) => PushesFreshCell
            /\ KeepsVisited]_vars

\* The stack has run empty on the largest grid, all of its cells visited.
C14_Witness ==
    /\ pc = "generating"
    /\ stack = <<>>
    /\ width = MaxGenWidth /\ height = MaxGenHeight
    /\ AllVisited

\* C15: the visited marker does not leak: in every stable state no cell of
\* the grid has a visited field, and no cell returned by getCell has one.
C15_NoVisitedLeak ==
    /\ pc = "stable" =>
          \A a \in Cells : "visited" \notin DOMAIN At(grid, a.x, a.y)
    /\ (ret.op = "getCell" /\ ret.val # null) =>
          "visited" \notin DOMAIN ret.val

\* getCell returned a cell of a regenerated maze: it has its coordinates and
\* walls and nothing else.
C15_Witness ==
    /\ pc = "stable"
    /\ origin = "regenerate"
    /\ ret.op = "getCell"
    /\ ret.val # null
    /\ DOMAIN ret.val = {"x", "y", "walls"}

\* C18: the 1x1 maze is legal: construction reaches the stable state, the
\* single cell keeps all four walls (no open adjacency), start equals goal,
\* isGoal(0, 0) is true and canMove(0, 0, d) is BLOCKED_BY_WALL for each of
\* the four directions.
C18_OneByOne ==
    (pc = "stable" /\ width = 1 /\ height = 1) =>
        /\ \A d \in Directions : At(grid, 0, 0).walls[d]
        /\ OpenEdges = {}
        /\ start = goal
        /\ IsGoal(0, 0)
        /\ \A d \in Directions : CanMove(0, 0, d) = BLOCKED_BY_WALL

\* The constructed 1x1 maze, stable, its cell walled on four sides.
C18_Witness ==
    /\ pc = "stable"
    /\ origin = "constructor"
    /\ width = 1 /\ height = 1
    /\ GetAdjacentWallCount(0, 0) = 4

\* C19: construction with width <= 0 or height <= 0 fails: the constructor
\* never returns a maze, so no maze with such a dimension is ever generated,
\* stable or queried.
C19_BadDimensionsFail ==
    (width <= 0 \/ height <= 0) =>
        /\ pc \in {"new", "failed"}
        /\ ret = NoCall

\* new Maze(0, height) with a positive height has thrown.
C19_Witness ==
    /\ pc = "failed"
    /\ width = 0
    /\ height >= 1

----------------------------------------------------------------------------
\* The wall flags of grid g, cell by cell.
Walls(g) == [r \in 1..Len(g) |-> [c \in 1..Len(g[r]) |-> g[r][c].walls]]

\* A step in which the controller serves a key press or an animation frame.
CallbackStep ==
    /\ gpc = "idle"
    /\ event' \in {"keydown", "frame"}
    /\ gameVars' # gameVars

\* A step in which the controller serves a restart.
RestartStep ==
    /\ gpc = "idle"
    /\ event' = "restart"
    /\ event # "restart"

\* The open adjacencies form a tree that spans the grid: every cell is
\* reached from the start, over one adjacency less than there are cells, and
\* no cycle is left.
CarvedTree ==
    /\ ReachOpen({[x |-> 0, y |-> 0]}, {[x |-> 0, y |-> 0]}) = Cells
    /\ Cardinality(OpenEdges) = width * height - 1
    /\ Acyclic

\* C16: generation is all-or-nothing for readers. The controller serves
\* callbacks only once the construction has returned, every key press and
\* every animation frame is served on a stable maze and leaves it stable,
\* and the walls a callback can read are those of a completely carved
\* spanning-tree maze, never of a partially carved grid.
C16_AllOrNothing ==
    /\ [](gpc = "idle" => pc = "stable" /\ CarvedTree)
    /\ [][CallbackStep => pc = "stable" /\ pc' = "stable"]_vars

\* A key press has been served: it read the walls with canMove and started
\* a move into the goal cell.
C16_Witness ==
    /\ gpc = "idle"
    /\ event = "keydown"
    /\ isMoving
    /\ state = "winning"

\* C17: wall flags change only inside generation. A step that changes a
\* wall flag is a step of the construction's generate() or a restart (which
\* calls regenerate()); a key press, with the move or the collision and the
\* win or game-over transition it brings, and an animation frame leave
\* every wall flag as it was.
C17_WallsOnlyByGeneration ==
    [][/\ Walls(grid)' # Walls(grid) =>
            \/ pc' = "generating"
            \/ gpc = "idle" /\ event' = "restart" /\ origin' = "regenerate"
       /\ CallbackStep => Walls(grid)' = Walls(grid)]_vars

\* A session with a collision and a move has been played to the end of its
\* win progression.
C17_Witness ==
    /\ gpc = "idle"
    /\ collisionCount > 0
    /\ moveCount > 0
    /\ state = "won"

\* C20 as stated: regeneration changes the layout. After a restart, which
\* calls regenerate(), on a grid that admits more than one layout, the set
\* of open adjacencies differs from the set before the call.
C20_LayoutChanges ==
    [][(RestartStep /\ Cardinality(GameGrids) > 1)
           => OpenEdges' # OpenEdges]_vars

\* C20 as amended: regeneration draws the layout afresh. After a restart
\* the maze has the dimensions, start and goal it had, and its grid is again
\* a completely carved spanning-tree maze; the set of open adjacencies is
\* not required to differ from the one before.
C20_LayoutDrawnAfresh ==
    /\ [](event = "restart" => pc = "stable" /\ SpanningTree)
    /\ [][RestartStep => /\ width' = width
                         /\ height' = height
                         /\ start' = start
                         /\ goal' = goal]_vars

\* A restart has been served, on a grid that admits more than one layout,
\* after a session in which the player moved.
C20_Witness ==
    /\ Cardinality(GameGrids) > 1
    /\ gpc = "idle"
    /\ event = "restart"
    /\ origin = "regenerate"
    /\ moveTo # [x |-> 0, y |-> 0]

----------------------------------------------------------------------------
\* The cells that carry the visited mark.
VisitedCells == {a \in Cells : At(grid, a.x, a.y).visited}

\* Cells a and b are orthogonal neighbours.
Adjacent(a, b) == \E d \in Directions : StepFrom(a, d) = b

\* A step inside generate() that changes a wall flag.
CarveStep ==
    /\ pc = "generating"
    /\ pc' = "generating"
    /\ Walls(grid)' # Walls(grid)

\* C22: the carving invariant. While generate() runs, a wall is removed only
\* between the cell on top of the stack and an orthogonally adjacent,
\* in-bounds, not yet visited cell, which is then marked visited and pushed;
\* and at every step the open adjacencies form a tree that spans exactly the
\* visited cells (one adjacency less than visited cells), the stack holds no
\* cell twice, its bottom is (0,0), and consecutive stack entries are joined
\* by an open adjacency.
C22_CarvingInvariant ==
    /\ [](pc = "generating" =>
            /\ ReachOpen({[x |-> 0, y |-> 0]}, {[x |-> 0, y |-> 0]})
                  = VisitedCells
            /\ \A a \in Cells \ VisitedCells : OpenNeighbors(a) = {}
            /\ Cardinality(OpenEdges) = Cardinality(VisitedCells) - 1
            /\ Acyclic
            /\ Cardinality(OnStack) = Len(stack)
            /\ Len(stack) > 0 => stack[1] = [x |-> 0, y |-> 0]
            /\ \A i \in 1..(Len(stack) - 1) :
                  OpenBetween(stack[i], stack[i + 1]))
    /\ [][CarveStep =>
            LET top == stack[Len(stack)]
                c == stack'[Len(stack')]
            IN  /\ stack' = Append(stack, c)
                /\ Adjacent(top, c)
                /\ InBounds(c.x, c.y)
                /\ ~At(grid, c.x, c.y).visited
                /\ At(grid', c.x, c.y).visited
                /\ OpenEdges' = OpenEdges \cup {{top, c}}
                /\ \A a \in Cells \ {top, c} :
                      At(grid', a.x, a.y).walls = At(grid, a.x, a.y).walls]_vars

\* Generation on the largest grid has carved, backtracked from a dead end
\* and carved again: a visited cell is off the stack, an unvisited one is
\* left.
C22_Witness ==
    /\ pc = "generating"
    /\ width = MaxGenWidth /\ height = MaxGenHeight
    /\ Len(stack) >= 3
    /\ VisitedCells \ OnStack # {}
    /\ Cells \ VisitedCells # {}
    /\ stack[Len(stack)] \notin
          {[x |-> 0, y |-> 0], [x |-> width - 1, y |-> height - 1]}

\* C30: in every generated maze with more than one cell every in-bounds cell
\* has at least one open side, so getAdjacentWallCount is at most 3 for
\* every in-bounds cell; a count of 4 occurs only for the single cell of a
\* 1x1 maze.
C30_AtMostThreeWalls ==
    pc = "stable" =>
        \A a \in Cells :
            /\ width * height > 1 => GetAdjacentWallCount(a.x, a.y) <= 3
            /\ GetAdjacentWallCount(a.x, a.y) = 4 => width = 1 /\ height = 1

\* A generated maze on the largest grid with a dead end (three walls) and a
\* junction (one wall at most).
C30_Witness ==
    /\ pc = "stable"
    /\ width = MaxGenWidth /\ height = MaxGenHeight
    /\ \E a \in Cells : GetAdjacentWallCount(a.x, a.y) = 3
    /\ \E a \in Cells : GetAdjacentWallCount(a.x, a.y) <= 1

----------------------------------------------------------------------------
\* The player's grid position.
Position == [x |-> gridX, y |-> gridY]

\* The bottom-right cell of the grid.
BottomRight == [x |-> width - 1, y |-> height - 1]

\* A step in which the controller serves a key press.
KeyStep == gpc = "idle" /\ event' = "keydown"

\* A step that starts a move of the player onto cell c: the step handleMove
\* takes after canMove reported the way to c open.
MoveStarts(c) ==
    /\ KeyStep
    /\ \E d \in Directions :
          /\ CanMove(gridX, gridY, d) = OPEN
          /\ StepFrom(Position, d) = c
    /\ ~isMoving
    /\ isMoving'
    /\ moveTo' = c
    /\ moveCount' = moveCount + 1

\* C21: the exit is the bottom-right cell. The game enters 'winning' exactly
\* in the steps in which, in state 'playing', an open move onto
\* (width-1, height-1) starts; no collision, frame (timer) or move onto any
\* other cell sets 'winning'.
C21_WinAtBottomRight ==
    [][(state # "winning" /\ state' = "winning")
          <=> (state = "playing" /\ MoveStarts(BottomRight))]_vars

\* The game has been won by a move onto the bottom-right cell after a
\* collision and a move that did not win.
C21_Witness ==
    /\ state = "winning"
    /\ isMoving
    /\ moveTo = BottomRight
    /\ moveCount >= 2
    /\ blockedAttempts >= 1

\* C23: the player never passes through a wall or leaves the grid. The grid
\* position is in-bounds in every state of the game; apart from a restart
\* putting it on (0,0) it changes only, in a frame, by one step to the
\* orthogonal neighbour in a direction for which canMove at the current
\* position reports open; a blocked attempt leaves the position unchanged
\* and starts no move.
C23_NoPassThroughWalls ==
    /\ [](gpc = "idle" => InBounds(gridX, gridY))
    /\ [][/\ Position' # Position =>
               \/ event' = "restart" /\ Position' = [x |-> 0, y |-> 0]
               \/ /\ event' = "frame"
                  /\ \E d \in Directions :
                        /\ CanMove(gridX, gridY, d) = OPEN
                        /\ Position' = StepFrom(Position, d)
          /\ (KeyStep /\ blockedAttempts' = blockedAttempts + 1) =>
               /\ Position' = Position
               /\ moveTo' = moveTo
               /\ ~isMoving'
               /\ moveCount' = moveCount]_vars

\* The player has bumped into a wall or the boundary and then arrived on a
\* cell other than the start.
C23_Witness ==
    /\ gpc = "idle"
    /\ Position # [x |-> 0, y |-> 0]
    /\ ~isMoving
    /\ blockedAttempts >= 1
    /\ moveCount >= 1

\* C24: input gating. A key press changes the player's position, the move
\* count, the collision count, the energy or the game state (or any other
\* field of the session) only if the state is 'playing' and the player is
\* neither moving nor bouncing; in 'winning', 'won' and 'gameover' and while
\* a move or a bounce is in flight every key press is ignored.
C24_InputGating ==
    [][(KeyStep /\ ~(state = "playing" /\ ~isMoving /\ ~isBouncing)) =>
          /\ UNCHANGED <<gridX, gridY, moveCount, collisionCount, energy,
                         state>>
          /\ UNCHANGED <<isMoving, isBouncing, moveTo, hasMovedOnce,
                         winProgress, blockedAttempts, grid>>]_vars

\* A key has been pressed during the win progression, with the winning move
\* still in flight, and was ignored.
C24_Witness ==
    /\ event = "keydown"
    /\ state = "winning"
    /\ winProgress > 0
    /\ isMoving

----------------------------------------------------------------------------
\* A step in which a key press is answered by handleCollision.
CollisionStep == KeyStep /\ blockedAttempts' = blockedAttempts + 1

\* C25 as stated: counting from a fresh start or a restart, each collision
\* costs 6% of full energy with energy floored at 0, and the 16th collision
\* of the session is the one that brings energy to 0 and triggers game over
\* with reason 'energy'.
C25_SixteenthCollisionEnds ==
    [][CollisionStep =>
          /\ energy' = Max0(energy - EnergyLossPerCollision)
          /\ blockedAttempts' = 16 => energy' = 0 /\ state' = "gameover"]_vars

\* C25 as amended: counting from a fresh start or a restart, each collision
\* costs 6% of full energy with energy floored at 0, so the energy left
\* after n collisions is max(0, 1.0 - 0.06 n); the 17th collision of the
\* session, and no earlier one, brings energy to 0 and triggers game over.
C25_SeventeenthCollisionEnds ==
    /\ [](energy = Max0(MaxEnergy - EnergyLossPerCollision * blockedAttempts))
    /\ [](blockedAttempts <= 17)
    /\ [][CollisionStep =>
            /\ energy' = Max0(energy - EnergyLossPerCollision)
            /\ energy' = 0 <=> blockedAttempts' = 17
            /\ state' = "gameover" <=> blockedAttempts' = 17
            /\ state' # "gameover" => state' = state]_vars

\* After a restart the session has been lost to its 17th collision.
C25_Witness ==
    /\ origin = "regenerate"
    /\ event = "keydown"
    /\ state = "gameover"
    /\ energy = 0
    /\ blockedAttempts = 17

\* C26: the collision statistic is exact: Player.collisionCount equals the
\* number of blocked move attempts since the last start or restart (each
\* collision adds exactly one to it, a successful move nothing).
C26_CollisionCountExact == collisionCount = blockedAttempts

----------------------------------------------------------------------------
\* A step in which the controller serves an animation frame.
FrameStep == gpc = "idle" /\ event' = "frame"

\* A step in which restart() is served, whatever was served before it.
RestartServed == gpc = "idle" /\ event' = "restart"

\* C27: the game state changes only along these transitions: playing ->
\* winning by an open move onto the goal, winning -> won by a frame in which
\* the win progress reaches 1, playing -> gameover by a collision that
\* exhausts the energy or by a frame (time expired) after the first move,
\* and any state -> playing by a restart. So 'won' is entered only from
\* 'winning', and 'gameover' never from 'winning' or 'won'.
C27_StateTransitions ==
    [][state' # state =>
          \/ /\ state = "playing" /\ state' = "winning"
             /\ MoveStarts(goal)
          \/ /\ state = "winning" /\ state' = "won"
             /\ FrameStep
             /\ winProgress' >= WinProgressDone
          \/ /\ state = "playing" /\ state' = "gameover"
             /\ \/ CollisionStep /\ energy' = 0
                \/ FrameStep /\ hasMovedOnce
          \/ /\ state' = "playing"
             /\ RestartServed]_vars

\* After a restart a session has been won and its win screen reached.
C27_Witness ==
    /\ origin = "regenerate"
    /\ state = "won"
    /\ event = "frame"
    /\ winProgress >= WinProgressDone

\* C28: once the state is 'winning', with the game loop kept ticking and no
\* restart, the state eventually becomes 'won': every frame adds 0.015 to
\* the win progress and the frame in which it reaches 1 enters 'won'; in
\* between the state neither returns to 'playing' nor goes to 'gameover'.
C28_WinningLeadsToWon ==
    /\ (state = "winning") ~> (state = "won" \/ event = "restart")
    /\ [][state = "winning" =>
            /\ state' \in {"winning", "won"} \/ RestartServed
            /\ FrameStep =>
                 /\ winProgress' = winProgress + WinProgressPerFrame
                 /\ state' = "won" <=> winProgress' >= WinProgressDone]_vars

\* The win progression is under way, one frame short of the win screen.
C28_Witness ==
    /\ state = "winning"
    /\ winProgress < WinProgressDone
    /\ winProgress + WinProgressPerFrame >= WinProgressDone

\* Every shared wall of the grid has the same flag on both of its sides.
SymmetricWalls ==
    \A a \in Cells : \A d \in Directions :
        LET b == StepFrom(a, d)
        IN  InBounds(b.x, b.y) =>
                At(grid, a.x, a.y).walls[d]
                    = At(grid, b.x, b.y).walls[Opposite(d)]

\* C29: restart() from any game state, mid-move and mid-bounce included,
\* yields a clean session: state 'playing', energy 1.0, win progress 0,
\* first-move flag cleared, move and collision counters 0, the player on
\* (0,0) with no move or bounce in flight, and a regenerated maze of the same
\* dimensions that is again a symmetric spanning tree; and a frame served
\* with no move in flight never relocates the player, so a move pending at
\* the restart does not relocate it afterwards.
C29_RestartIsClean ==
    /\ [](event = "restart" => pc = "stable" /\ CarvedTree /\ SymmetricWalls)
    /\ [][RestartServed =>
            /\ state' = "playing"
            /\ energy' = MaxEnergy
            /\ winProgress' = 0
            /\ ~hasMovedOnce'
            /\ moveCount' = 0
            /\ collisionCount' = 0
            /\ Position' = [x |-> 0, y |-> 0]
            /\ ~isMoving'
            /\ ~isBouncing'
            /\ width' = width
            /\ height' = height]_vars
    /\ [][(FrameStep /\ ~isMoving) => Position' = Position]_vars

\* A restart has been served in mid-move: the move that was pending is still
\* recorded in moveTo, the player is on (0,0) and does not move.
C29_Witness ==
    /\ event = "restart"
    /\ moveTo # [x |-> 0, y |-> 0]
    /\ Position = [x |-> 0, y |-> 0]
    /\ ~isMoving
    /\ state = "playing"
    /\ energy = MaxEnergy

====
